---- MODULE Spec2Model ----
(***************************************************************************)
(* Model of SciComp/ivp.py (solve_ode, shooting) and                       *)
(* SciComp/_pde_solvers.py (the fixed-step PDE time-steppers).             *)
(*                                                                         *)
(* Numbers.  Times are integers counted in ticks of 0.01 (the default      *)
(* deltat_max), so 0.001 is a tenth of a tick.  State values are exact     *)
(* rationals <<numerator, denominator>> in lowest terms, denominator > 0.  *)
(* Python values carry their type: [type |-> ..., val |-> ...].            *)
(***************************************************************************)
EXTENDS Integers, Sequences, FiniteSets, TLC

\* ------------------------------------------------------------------------
\* Bounds of the model
\* ------------------------------------------------------------------------
MaxTf == 3
MaxNMax == 2
MaxDeltat == 2
MaxPeriod == 2

\* ------------------------------------------------------------------------
\* Exact rational arithmetic (stands for the float arithmetic of numpy)
\* ------------------------------------------------------------------------
Abs(x) == IF x < 0 THEN -x ELSE x

RECURSIVE GCD(_, _)
GCD(a, b) == IF b = 0 THEN a ELSE GCD(b, a % b)

Reduce(n, d, g) ==
    IF d < 0 THEN <<(-n) \div g, (-d) \div g>> ELSE <<n \div g, d \div g>>

Rat(n, d) == Reduce(n, d, GCD(Abs(n), Abs(d)))

R(i) == <<i, 1>>

AddOver(p, q, l) == Rat(p[1] * (l \div p[2]) + q[1] * (l \div q[2]), l)

RAdd(p, q) == AddOver(p, q, (p[2] \div GCD(p[2], q[2])) * q[2])

RNeg(p) == <<-p[1], p[2]>>

RSub(p, q) == RAdd(p, RNeg(q))

RMul(p, q) == Rat(p[1] * q[1], p[2] * q[2])

RDiv(p, q) == Rat(p[1] * q[2], p[2] * q[1])

RLe(p, q) == p[1] * q[2] <= q[1] * p[2]

RAbs(p) == <<Abs(p[1]), p[2]>>

\* numpy vectors: sequences of rationals
RECURSIVE VAddTo(_, _, _)
VAddTo(u, v, n) ==
    IF n = 0 THEN <<>> ELSE Append(VAddTo(u, v, n - 1), RAdd(u[n], v[n]))

VAdd(u, v) == VAddTo(u, v, Len(u))

RECURSIVE VScaleTo(_, _, _)
VScaleTo(r, u, n) ==
    IF n = 0 THEN <<>> ELSE Append(VScaleTo(r, u, n - 1), RMul(r, u[n]))

VScale(r, u) == VScaleTo(r, u, Len(u))

RECURSIVE SumInts(_)
SumInts(s) == IF s = <<>> THEN 0 ELSE Head(s) + SumInts(Tail(s))

\* numpy matrices: sequences of rows
RECURSIVE Dot(_, _, _)
Dot(row, u, n) ==
    IF n = 0 THEN R(0) ELSE RAdd(Dot(row, u, n - 1), RMul(row[n], u[n]))

RECURSIVE MatVecTo(_, _, _)
MatVecTo(A, u, n) ==
    IF n = 0 THEN <<>> ELSE Append(MatVecTo(A, u, n - 1), Dot(A[n], u, Len(u)))

MatVec(A, u) == MatVecTo(A, u, Len(A))

RECURSIVE MatAddTo(_, _, _)
MatAddTo(A, B, n) ==
    IF n = 0 THEN <<>> ELSE Append(MatAddTo(A, B, n - 1), VAdd(A[n], B[n]))

MatAdd(A, B) == MatAddTo(A, B, Len(A))

RECURSIVE MatScaleTo(_, _, _)
MatScaleTo(r, A, n) ==
    IF n = 0 THEN <<>> ELSE Append(MatScaleTo(r, A, n - 1), VScale(r, A[n]))

MatScale(r, A) == MatScaleTo(r, A, Len(A))

Eye(n) == [i \in 1..n |-> [j \in 1..n |-> IF i = j THEN R(1) ELSE R(0)]]

\* A without row 1 and column j
Minor(A, j) ==
    [r \in 1..(Len(A) - 1) |->
        [c \in 1..(Len(A) - 1) |-> A[r + 1][IF c < j THEN c ELSE c + 1]]]

\* the determinant, expanded along the first row
RECURSIVE Det(_)
RECURSIVE DetTerms(_, _)
DetTerms(A, j) ==
    IF j = 0 THEN R(0)
    ELSE RAdd(DetTerms(A, j - 1),
              RMul(IF j % 2 = 1 THEN A[1][j] ELSE RNeg(A[1][j]), Det(Minor(A, j))))

Det(A) == IF Len(A) = 1 THEN A[1][1] ELSE DetTerms(A, Len(A))

ReplaceColumn(A, j, v) ==
    [r \in 1..Len(A) |-> [c \in 1..Len(A) |-> IF c = j THEN v[r] ELSE A[r][c]]]

Singular(A) == Det(A) = R(0)

\* np.linalg.solve / spsolve: the x with A x = rhs, A not singular
RECURSIVE SolveTo(_, _, _)
SolveTo(A, rhs, n) ==
    IF n = 0 THEN <<>>
    ELSE Append(SolveTo(A, rhs, n - 1), RDiv(Det(ReplaceColumn(A, n, rhs)), Det(A)))

Solve(A, rhs) == SolveTo(A, rhs, Len(A))

\* ------------------------------------------------------------------------
\* Python values: [type, val]
\* ------------------------------------------------------------------------
None == [type |-> "none", val |-> 0]

Int_(i) == [type |-> "int", val |-> i]

Str == [type |-> "str", val |-> 0]

Float == [type |-> "float", val |-> 0]

Tuple(items) == [type |-> "tuple", val |-> items]

\* a bare scalar passed where a tuple is expected
Scalar(i) == [type |-> "scalar", val |-> <<i>>]

NoArgs == [type |-> "none", val |-> <<>>]

NdArray(v) == [type |-> "ndarray", val |-> v]

List(v) == [type |-> "list", val |-> v]

\* ------------------------------------------------------------------------
\* Callables.  A vector field is [code |-> "ode", fun, bound]: the user's
\* function fun(t, y, *extra) = a*y + c + sum(extra), with the extra
\* arguments the wrapping lambda binds.  The method-of-lines right-hand side
\* is [code |-> "PDE", C, A, b].
\* ------------------------------------------------------------------------
Closure(fun, bound) == [code |-> "ode", fun |-> fun, bound |-> bound]

\* Whether the call f(t, y) raises: a wrong number of arguments, a plain
\* list where the function does array arithmetic, or the function's own error.
CallRaises(f, y) ==
    \/ Len(f.bound) # f.fun.nargs
    \/ (y.type = "list" /\ ~f.fun.acceptsList)
    \/ f.fun.ret = "raise"

\* The numbers f(t, y) computes.
FieldValue(f, t, y) ==
    IF f.code = "PDE"
    THEN VScale(f.C, VAdd(MatVec(f.A, y), f.b))
    ELSE VAdd(VScale(R(f.fun.a), y),
              [i \in DOMAIN y |-> R(f.fun.c + SumInts(f.bound))])

\* The Python value f(t, y) returns (when it does not raise).
CallValue(f, t, y) ==
    CASE f.fun.ret = "list" ->
            [type |-> "list", val |-> FieldValue(f, t, y.val)]
      [] f.fun.ret = "wrongshape" ->
            [type |-> "ndarray", val |-> Append(FieldValue(f, t, y.val), R(0))]
      [] OTHER ->
            [type |-> "ndarray", val |-> FieldValue(f, t, y.val)]

\* ------------------------------------------------------------------------
\* Step Functions (SciComp/_ode_solvers.py): (f, t, y, h) -> (t + h, y_next)
\* ------------------------------------------------------------------------
euler_step(f, t, y, h) ==
    <<t + h, VAdd(y, VScale(R(h), FieldValue(f, R(t), y)))>>

heun_step(f, t, y, h) ==
    LET k1 == FieldValue(f, R(t), y)
        yp == VAdd(y, VScale(R(h), k1))
        k2 == FieldValue(f, R(t + h), yp)
    IN  <<t + h, VAdd(y, VScale(Rat(h, 2), VAdd(k1, k2)))>>

rk4_step(f, t, y, h) ==
    LET k1 == FieldValue(f, R(t), y)
        k2 == FieldValue(f, RAdd(R(t), Rat(h, 2)), VAdd(y, VScale(Rat(h, 2), k1)))
        k3 == FieldValue(f, RAdd(R(t), Rat(h, 2)), VAdd(y, VScale(Rat(h, 2), k2)))
        k4 == FieldValue(f, R(t + h), VAdd(y, VScale(R(h), k3)))
        ks == VAdd(VAdd(k1, VScale(R(2), k2)), VAdd(VScale(R(2), k3), k4))
    IN  <<t + h, VAdd(y, VScale(Rat(h, 6), ks))>>

\* A step function object and its __name__ are different values.
FunctionObject(name) == "<function " \o name \o ">"

\* METHODS = {'Euler': euler_step, 'RK4': rk4_step, 'Heun': heun_step}
MethodNames == {"Euler", "RK4", "Heun"}

METHODS(name) ==
    CASE name = "Euler" -> FunctionObject("euler_step")
      [] name = "RK4" -> FunctionObject("rk4_step")
      [] name = "Heun" -> FunctionObject("heun_step")

\* Calling a step function object.
CallStep(method, f, t, y, h) ==
    CASE method = FunctionObject("euler_step") -> euler_step(f, t, y, h)
      [] method = FunctionObject("rk4_step") -> rk4_step(f, t, y, h)
      [] method = FunctionObject("heun_step") -> heun_step(f, t, y, h)

\* ------------------------------------------------------------------------
\* solve_ode (SciComp/ivp.py)
\* ------------------------------------------------------------------------
NoError == "none"

\* Lines 62-74: args must unpack; fun is then wrapped to pass them on.
CheckArgs(args) ==
    IF args.type = "scalar"
    THEN "TypeError: Supplied 'args' cannot be unpacked"
    ELSE NoError

WrapFun(fun, args) ==
    IF args.type = "tuple" THEN Closure(fun, args.val) ELSE Closure(fun, <<>>)

\* Lines 76-91: the trial call fun(t0, y0), then the types of t0, y0 and
\* of the value returned.
CheckFun(f, t0, y0) ==
    IF CallRaises(f, y0) THEN "FunctionError: ODE function must be of the form f(t, y)"
    ELSE IF t0.type # "int" THEN "ValueError: Initial value t0 must be a float or int"
    ELSE IF y0.type # "ndarray" THEN "InputError: Initial value y0 must a numpy array"
    ELSE IF CallValue(f, t0.val, y0).type # "ndarray"
        THEN "FunctionError: ODE function must return a numpy array"
    ELSE IF Len(y0.val) # Len(CallValue(f, t0.val, y0).val)
        THEN "FunctionError: ODE function must return a numpy array of the same shape as y0"
    ELSE NoError

\* Lines 93-98
CheckMethod(method) ==
    IF method \notin MethodNames THEN "ValueError: Invalid method" ELSE NoError

\* Line 112: tf < 0.001 (a tenth of a tick) and method == rk4_step.__name__,
\* method being by now the step function object METHODS[method].
WarnsRK4(tf, m) == 10 * tf.val < 1 /\ m = "rk4_step"

\* Lines 100-116.  The warning's message formats h, a name solve_ode never
\* binds, so reaching line 113 raises NameError before anything is emitted.
CheckTf(tf, n_max, t0, m) ==
    IF tf.type = "none" /\ n_max.type = "none"
        THEN "ValueError: Either tf or n_max must be given"
    ELSE IF tf.type = "none" THEN NoError
    ELSE IF tf.type # "int" THEN "ValueError: tf must be a float or int"
    ELSE IF tf.val <= t0.val THEN "ValueError: tf must be greater than t0"
    ELSE IF WarnsRK4(tf, m) THEN "NameError: name 'h' is not defined"
    ELSE NoError

\* CheckNMax with the bound test written n_max < 0
CheckNMaxStrict(n_max) ==
    IF n_max.type = "none" THEN NoError
    ELSE IF n_max.type = "int"
        THEN IF n_max.val < 0 THEN "ValueError: n_max must be greater than 0" ELSE NoError
    ELSE "ValueError: n_max must be an int"

\* Lines 118-123
CheckNMax(n_max) ==
    IF n_max.type = "none" THEN NoError
    ELSE IF n_max.type = "int"
        THEN IF n_max.val <= 0 THEN "ValueError: n_max must be greater than 0" ELSE NoError
    ELSE "ValueError: n_max must be an int"

\* Lines 125-129
CheckDeltat(deltat_max) ==
    IF deltat_max.type # "int" THEN "ValueError: deltat_max must be a float or int"
    ELSE IF deltat_max.val <= 0 THEN "ValueError: deltat_max must be greater than 0"
    ELSE NoError

\* The first error raised: e, or else what follows it
OrElse(e, next) == IF e # NoError THEN e ELSE next

\* Lines 62-129: the checks in the order of the code; the first that fails
\* raises, and those after it are not evaluated.
ValidateError(fun, t0, y0, tf, n_max, method, deltat_max, args) ==
    OrElse(CheckArgs(args),
    OrElse(CheckFun(WrapFun(fun, args), t0, y0),
    OrElse(CheckMethod(method),
    OrElse(CheckTf(tf, n_max, t0, METHODS(method)),
    OrElse(CheckNMax(n_max),
           CheckDeltat(deltat_max))))))

\* What the checks leave behind: the error raised (NoError when all pass),
\* method rebound to the step function (line 98), fun to the lambda (line 74).
Validate(fun, t0, y0, tf, n_max, method, deltat_max, args) ==
    [err |-> ValidateError(fun, t0, y0, tf, n_max, method, deltat_max, args),
     method |-> IF method \in MethodNames THEN METHODS(method) ELSE method,
     fun |-> WrapFun(fun, args)]

\* Lines 131-135
LoopInit(t0, y0, deltat_max) ==
    [t |-> t0.val, y |-> y0.val, t_array |-> <<t0.val>>, y_array |-> <<y0.val>>,
     step |-> 0, deltat_max |-> deltat_max.val]

\* LoopCond with the step bound off by one
LoopCondOffByOne(s, tf, n_max) ==
    /\ (tf.type = "none" \/ s.t < tf.val)
    /\ (n_max.type = "none" \/ s.step <= n_max.val)

\* Line 137
LoopCond(s, tf, n_max) ==
    /\ (tf.type = "none" \/ s.t < tf.val)
    /\ (n_max.type = "none" \/ s.step < n_max.val)

\* Line 144: the clamp, evaluated after the step just taken
Overshoots(t, deltat_max, tf) == tf.type # "none" /\ t + deltat_max > tf.val

\* Lines 139-145, r being the (t, y) the step function returned
AfterStep(s, r, tf) ==
    [t |-> r[1], y |-> r[2],
     t_array |-> Append(s.t_array, r[1]),
     y_array |-> Append(s.y_array, r[2]),
     step |-> s.step + 1,
     deltat_max |-> IF Overshoots(r[1], s.deltat_max, tf)
                    THEN tf.val - r[1] ELSE s.deltat_max]

\* Lines 138-145
LoopBody(s, method, f, tf) ==
    AfterStep(s, CallStep(method, f, s.t, s.y, s.deltat_max), tf)

RECURSIVE RunLoop(_, _, _, _, _)
RunLoop(s, method, f, tf, n_max) ==
    IF LoopCond(s, tf, n_max)
    THEN RunLoop(LoopBody(s, method, f, tf), method, f, tf, n_max)
    ELSE s

\* The whole call: what it raises, or the two arrays it returns.
Raised(e) == [err |-> e, t |-> <<>>, y |-> <<>>]

\* Line 147
Returned(s) == [err |-> NoError, t |-> s.t_array, y |-> s.y_array]

Integrate(v, t0, y0, tf, n_max, deltat_max) ==
    IF v.err # NoError
    THEN Raised(v.err)
    ELSE Returned(RunLoop(LoopInit(t0, y0, deltat_max), v.method, v.fun, tf, n_max))

solve_ode(fun, t0, y0, tf, n_max, method, deltat_max, args) ==
    Integrate(Validate(fun, t0, y0, tf, n_max, method, deltat_max, args),
              t0, y0, tf, n_max, deltat_max)

\* Line 17: the defaults method='RK4', deltat_max=0.01 (one tick)
DefaultDeltatMax == 1

DefaultMethod == "RK4"

\* ------------------------------------------------------------------------
\* shooting (SciComp/ivp.py)
\* ------------------------------------------------------------------------
\* A guess [y0, ..., yn, T] is a sequence of integers, T in ticks.
RECURSIVE AsRationals(_, _)
AsRationals(v, n) == IF n = 0 THEN <<>> ELSE Append(AsRationals(v, n - 1), R(v[n]))

\* U0[:-1], of the type of U0
StatePart(U0) == [type |-> U0.type, val |-> AsRationals(U0.val, Len(U0.val) - 1)]

\* Line 202: solve_ode(ode, 0, U0[:-1], n_max=1, args=function_args)
Probe(U0, ode, function_args) ==
    solve_ode(ode, Int_(0), StatePart(U0), None, Int_(1), DefaultMethod,
              Int_(DefaultDeltatMax), function_args)

\* Line 240: ode_solver(ode, 0, Y0, tf=T, args=function_args).  A solver
\* other than solve_ode accepts every T and returns Y0 moved by its drift.
CallOdeSolver(ode_solver, ode, Y0, T, function_args) ==
    IF ode_solver.name = "solve_ode"
    THEN solve_ode(ode, Int_(0), Y0, Int_(T), None, DefaultMethod,
                   Int_(DefaultDeltatMax), function_args)
    ELSE [err |-> NoError, t |-> <<0, T>>,
          y |-> <<Y0.val, VAdd(Y0.val, [i \in DOMAIN Y0.val |-> R(ode_solver.drift)])>>]

\* Lines 235-253: the residual, or the error the IVP solve raised
\* Lines 243-253, r being what the IVP solve returned or raised
Conditions(r, Y0, phase) ==
    IF r.err # NoError
    THEN [err |-> r.err, conditions |-> <<>>]
    ELSE [err |-> NoError,
          conditions |-> Append(VAdd(r.y[Len(r.y)], VScale(R(-1), Y0)),
                                FieldValue(phase, R(0), Y0)[1])]

shooting_root(initial_guess, ode, phase_function, ode_solver, function_args) ==
    Conditions(CallOdeSolver(ode_solver, ode,
                             NdArray(AsRationals(initial_guess, Len(initial_guess) - 1)),
                             initial_guess[Len(initial_guess)], function_args),
               AsRationals(initial_guess, Len(initial_guess) - 1),
               WrapFun(phase_function, function_args))

\* numpy's default relative tolerance, 1e-5
rtol == Rat(1, 100000)

\* AllClose testing the first entry only
AllCloseFirstOnly(a, b, atol) ==
    RLe(RAbs(RSub(a[1], b[1])), RAdd(atol, RMul(rtol, RAbs(b[1]))))

\* Line 262: np.allclose(a, b, atol=atol): |a - b| <= atol + rtol * |b|, all entries
AllClose(a, b, atol) ==
    \A i \in DOMAIN a :
        RLe(RAbs(RSub(a[i], b[i])), RAdd(atol, RMul(rtol, RAbs(b[i]))))

Zeros(n) == [i \in 1..n |-> R(0)]

\* ------------------------------------------------------------------------
\* State
\* ------------------------------------------------------------------------
VARIABLES
    ode_call,    \* solve_ode: the arguments of the call
    ode_pc,      \* "call", "loop", "returned", "raised"
    ode_loc,     \* its locals: method, fun and the loop's t, y, arrays, step
    ode_out,     \* what it raised or returned
    ode_steps,   \* step function invocations so far
    warnings,    \* the process's warning stream
    sh_call,     \* shooting: the arguments of the call
    sh_pc,       \* "call", "checks", "root", "final", "returned", "raised"
    sh_loc,      \* its locals: sol, final_conditions
    sh_out,      \* what it raised or returned
    pde_call,    \* a PDE time-stepper: its name and arguments (bvp, t, method)
    pde_pc,      \* "call", "loop", "returned", "raised"
    pde_loc,     \* its locals: the buffer u, the loop index, the time t_
    pde_out      \* what it raised or returned

odeVars == <<ode_call, ode_pc, ode_loc, ode_out, ode_steps, warnings>>

shVars == <<sh_call, sh_pc, sh_loc, sh_out>>

pdeVars == <<pde_call, pde_pc, pde_loc, pde_out>>

vars == <<odeVars, shVars, pdeVars>>

OdeIdle ==
    /\ ode_call = <<>>
    /\ ode_pc = "idle"
    /\ ode_loc = <<>>
    /\ ode_out = <<>>
    /\ ode_steps = 0
    /\ warnings = <<>>

ShIdle ==
    /\ sh_call = <<>>
    /\ sh_pc = "idle"
    /\ sh_loc = <<>>
    /\ sh_out = <<>>

PdeIdle ==
    /\ pde_call = <<>>
    /\ pde_pc = "idle"
    /\ pde_loc = <<>>
    /\ pde_out = <<>>

\* ------------------------------------------------------------------------
\* solve_ode, one call, step by step
\* ------------------------------------------------------------------------
OdeFuns ==
    { [a |-> -1, c |-> 0, nargs |-> 0, acceptsList |-> FALSE, ret |-> "ndarray"],
      [a |-> 0, c |-> 1, nargs |-> 1, acceptsList |-> TRUE, ret |-> "ndarray"],
      [a |-> 0, c |-> 0, nargs |-> 0, acceptsList |-> TRUE, ret |-> "raise"],
      [a |-> 0, c |-> 0, nargs |-> 0, acceptsList |-> TRUE, ret |-> "list"],
      [a |-> 0, c |-> 0, nargs |-> 0, acceptsList |-> TRUE, ret |-> "wrongshape"] }

OdeArgs == {NoArgs, Tuple(<<1>>), Scalar(1)}

OdeT0 == {Int_(-1), Int_(0), Str}

OdeY0 == {NdArray(<<R(1)>>), NdArray(<<R(2), R(-1)>>), List(<<R(1)>>)}

OdeMethods == {"Euler", "RK4", "Heun", "Midpoint"}

OdeTf == {None, Str} \cup {Int_(v) : v \in -1..MaxTf}

OdeNMax == {None, Float} \cup {Int_(v) : v \in -1..MaxNMax}

OdeDeltat == {Str} \cup {Int_(v) : v \in 0..MaxDeltat}

OdeCalls ==
    [fun : OdeFuns, t0 : OdeT0, y0 : OdeY0, tf : OdeTf, n_max : OdeNMax,
     method : OdeMethods, deltat_max : OdeDeltat, args : OdeArgs]

NoLocals == [method |-> "", fun |-> "", s |-> ""]

NoResult == [err |-> NoError, t |-> <<>>, y |-> <<>>]

OdeInit ==
    /\ ode_call \in OdeCalls
    /\ ode_pc = "call"
    /\ ode_loc = NoLocals
    /\ ode_out = NoResult
    /\ ode_steps = 0
    /\ warnings = <<>>
    /\ ShIdle
    /\ PdeIdle

Validated(c, v) ==
    IF v.err # NoError
    THEN /\ ode_pc' = "raised"
         /\ ode_out' = Raised(v.err)
         /\ UNCHANGED ode_loc
    ELSE /\ ode_pc' = "loop"
         /\ ode_loc' = [method |-> v.method, fun |-> v.fun,
                        s |-> LoopInit(c.t0, c.y0, c.deltat_max)]
         /\ UNCHANGED ode_out

\* Lines 61-135: the checks, then the loop's initial state
OdeValidate ==
    /\ ode_pc = "call"
    /\ Validated(ode_call,
                 Validate(ode_call.fun, ode_call.t0, ode_call.y0, ode_call.tf,
                          ode_call.n_max, ode_call.method, ode_call.deltat_max,
                          ode_call.args))
    /\ UNCHANGED <<ode_call, ode_steps, warnings, shVars, pdeVars>>

\* Lines 137-145: one iteration of the while loop
OdeStep ==
    /\ ode_pc = "loop"
    /\ LoopCond(ode_loc.s, ode_call.tf, ode_call.n_max)
    /\ ode_loc' = [ode_loc EXCEPT
                     !.s = LoopBody(ode_loc.s, ode_loc.method, ode_loc.fun, ode_call.tf)]
    /\ ode_steps' = ode_steps + 1
    /\ UNCHANGED <<ode_call, ode_pc, ode_out, warnings, shVars, pdeVars>>

\* Line 147: the loop condition fails and the arrays are returned
OdeReturn ==
    /\ ode_pc = "loop"
    /\ ~LoopCond(ode_loc.s, ode_call.tf, ode_call.n_max)
    /\ ode_pc' = "returned"
    /\ ode_out' = Returned(ode_loc.s)
    /\ UNCHANGED <<ode_call, ode_loc, ode_steps, warnings, shVars, pdeVars>>

OdeNext == OdeValidate \/ OdeStep \/ OdeReturn

SpecOde == OdeInit /\ [][OdeNext]_vars

\* The call gets as far as the checks of tf and n_max (line 100).
ReachesBoundChecks(c) ==
    /\ c.args.type # "scalar"
    /\ Len(WrapFun(c.fun, c.args).bound) = c.fun.nargs
    /\ c.fun.ret = "ndarray"
    /\ c.t0.type = "int"
    /\ c.y0.type = "ndarray"
    /\ c.method \in {"Euler", "RK4", "Heun"}

TfValid(c) == c.tf.type = "int" /\ c.tf.val > c.t0.val

NMaxValid(c) == c.n_max.type = "int" /\ c.n_max.val > 0

DeltatValid(c) == c.deltat_max.type = "int" /\ c.deltat_max.val > 0

OdeEnded == ode_pc \in {"returned", "raised"}

Last(seq) == seq[Len(seq)]

\* C1: a valid call with tf = T and no n_max returns times that start at
\* t0, end exactly at T and never exceed T, whatever deltat_max is.
C1_LastTimeIsTf ==
    (ode_pc = "returned" /\ ode_call.tf.type = "int" /\ ode_call.n_max.type = "none") =>
        /\ ode_out.t[1] = ode_call.t0.val
        /\ Last(ode_out.t) = ode_call.tf.val
        /\ \A i \in DOMAIN ode_out.t : ode_out.t[i] <= ode_call.tf.val

\* C4: with tf and n_max both absent the call raises the "Either tf or
\* n_max" error; with n_max a non-positive int or not an int it raises a
\* validation error; in both cases no step function has run and nothing
\* is returned.
C4_BoundsValidated ==
    LET c == ode_call
        bothAbsent == c.tf.type = "none" /\ c.n_max.type = "none"
        badNMax == c.n_max.type = "float" \/ (c.n_max.type = "int" /\ c.n_max.val <= 0)
    IN  (ode_pc # "call" /\ (bothAbsent \/ badNMax)) =>
            /\ ode_pc = "raised"
            /\ ode_steps = 0
            /\ ode_out.t = <<>> /\ ode_out.y = <<>>
            /\ (ReachesBoundChecks(c) /\ bothAbsent) =>
                   ode_out.err = "ValueError: Either tf or n_max must be given"
            /\ (ReachesBoundChecks(c) /\ badNMax) =>
                   ode_out.err \in {"ValueError: n_max must be greater than 0",
                                    "ValueError: n_max must be an int",
                                    "ValueError: tf must be greater than t0",
                                    "ValueError: tf must be a float or int"}
            /\ (ReachesBoundChecks(c) /\ badNMax /\ (c.tf.type = "none" \/ TfValid(c))) =>
                   ode_out.err = IF c.n_max.type = "int"
                                 THEN "ValueError: n_max must be greater than 0"
                                 ELSE "ValueError: n_max must be an int"

\* a call that passes every earlier check, with a valid tf and n_max = 0
C4_Witness ==
    /\ ode_pc = "raised"
    /\ ReachesBoundChecks(ode_call)
    /\ TfValid(ode_call)
    /\ ode_call.n_max = Int_(0)
    /\ ode_out.err = "ValueError: n_max must be greater than 0"

\* C5: a valid RK4 call with t0 < tf < 0.001 emits the rounding-risk
\* warning and still returns a trajectory.
C5_WarnsAndReturns ==
    LET c == ode_call
    IN  (/\ OdeEnded
         /\ ReachesBoundChecks(c) /\ c.method = "RK4"
         /\ TfValid(c) /\ 10 * c.tf.val < 1
         /\ (c.n_max.type = "none" \/ NMaxValid(c))
         /\ DeltatValid(c)) =>
            /\ ode_pc = "returned"
            /\ Len(ode_out.t) >= 2
            /\ warnings # <<>>

\* C9: in the loop the step counter never exceeds n_max; a step is taken
\* only while t < tf and step < n_max (those that are set); with only n_max
\* the loop ends after exactly n_max steps; the two arrays have length
\* steps + 1 and start with (t0, y0).
C9_LoopBounds ==
    LET c == ode_call
        s == ode_loc.s
    IN  ode_pc \in {"loop", "returned"} =>
            /\ c.n_max.type = "int" => s.step <= c.n_max.val
            /\ \A k \in 1..s.step :
                   /\ c.tf.type = "int" => s.t_array[k] < c.tf.val
                   /\ c.n_max.type = "int" => k - 1 < c.n_max.val
            /\ ode_steps = s.step
            /\ Len(s.t_array) = s.step + 1
            /\ Len(s.y_array) = s.step + 1
            /\ s.t_array[1] = c.t0.val
            /\ s.y_array[1] = c.y0.val
            /\ ode_pc = "returned" =>
                   /\ ode_out.t = s.t_array
                   /\ ode_out.y = s.y_array
                   /\ c.tf.type = "none" => s.step = c.n_max.val

\* a call with only n_max = 2 that returns after two steps
C9_Witness ==
    /\ ode_pc = "returned"
    /\ ode_call.tf.type = "none"
    /\ ode_call.n_max = Int_(2)
    /\ ode_loc.s.step = 2
    /\ Len(ode_out.t) = 3

\* ------------------------------------------------------------------------
\* shooting, one call, step by step
\* ------------------------------------------------------------------------
ShU0 ==
    {[type |-> ty, val |-> v] :
        ty \in {"list", "ndarray"}, v \in {<<1, 0>>, <<1, 1>>, <<0, 2>>, <<1, 0, 1>>}}

ShOdes ==
    { [a |-> -1, c |-> 1, nargs |-> 0, acceptsList |-> FALSE, ret |-> "ndarray"],
      [a |-> 0, c |-> 0, nargs |-> 0, acceptsList |-> TRUE, ret |-> "ndarray"],
      [a |-> 0, c |-> -1, nargs |-> 1, acceptsList |-> TRUE, ret |-> "ndarray"] }

ShPhases ==
    { [a |-> 0, c |-> 0, nargs |-> 0, acceptsList |-> TRUE, ret |-> "ndarray"],
      [a |-> 1, c |-> 0, nargs |-> 0, acceptsList |-> FALSE, ret |-> "ndarray"],
      [a |-> 0, c |-> -1, nargs |-> 1, acceptsList |-> TRUE, ret |-> "ndarray"],
      [a |-> 0, c |-> 0, nargs |-> 0, acceptsList |-> TRUE, ret |-> "raise"] }

ShOdeSolvers ==
    { [name |-> "solve_ode", drift |-> 0],
      [name |-> "other", drift |-> 0],
      [name |-> "other", drift |-> 1] }

\* fsolve evaluates the residual at the guess and at every iterate, the one
\* it returns included; another root solver may return any vector.
ShRootSolvers == {"fsolve", "other"}

ShAtol == {Rat(1, 100), R(1)}

ShArgs == {NoArgs, Tuple(<<1>>), Scalar(1)}

ShCalls ==
    [U0 : ShU0, ode : ShOdes, phase_function : ShPhases, ode_solver : ShOdeSolvers,
     root_solver : ShRootSolvers, atol : ShAtol, function_args : ShArgs]

\* What a root solver may return for a guess of length n
Candidates(n) ==
    {v \in [1..n -> -1..MaxPeriod] : \A i \in 1..(n - 1) : v[i] \in 0..1}

ShNoLocals == [sol |-> <<>>, final_conditions |-> <<>>]

ShNoResult == [err |-> NoError, X0 |-> <<>>, T |-> 0, reported |-> <<>>]

Raise(e) == [err |-> e, X0 |-> <<>>, T |-> 0, reported |-> <<>>]

ShInit ==
    /\ sh_call \in ShCalls
    /\ sh_pc = "call"
    /\ sh_loc = ShNoLocals
    /\ sh_out = ShNoResult
    /\ OdeIdle
    /\ PdeIdle

\* Lines 200-207: the one-step probe; whatever it raises becomes the
\* InputError about the layout of U0
ShootProbe ==
    /\ sh_pc = "call"
    /\ IF Probe(sh_call.U0, sh_call.ode, sh_call.function_args).err # NoError
       THEN /\ sh_pc' = "raised"
            /\ sh_out' = Raise("InputError: The initial guess, U0, is not of the correct form")
       ELSE /\ sh_pc' = "checks"
            /\ UNCHANGED sh_out
    /\ UNCHANGED <<sh_call, sh_loc, odeVars, pdeVars>>

\* Lines 209-229: function_args must unpack; the phase function must
\* accept (0, U0[:-1])
ShootChecks ==
    /\ sh_pc = "checks"
    /\ IF sh_call.function_args.type = "scalar"
       THEN /\ sh_pc' = "raised"
            /\ sh_out' = Raise("TypeError: Supplied 'function_args' cannot be unpacked")
       ELSE IF CallRaises(WrapFun(sh_call.phase_function, sh_call.function_args),
                          StatePart(sh_call.U0))
       THEN /\ sh_pc' = "raised"
            /\ sh_out' = Raise("FunctionError: The phase function is not of the correct form")
       ELSE /\ sh_pc' = "root"
            /\ UNCHANGED sh_out
    /\ UNCHANGED <<sh_call, sh_loc, odeVars, pdeVars>>

Residual(guess) ==
    shooting_root(guess, sh_call.ode, sh_call.phase_function, sh_call.ode_solver,
                  sh_call.function_args)

\* Line 256 with fsolve: an error of the residual at U0 propagates
ShootRootRaises ==
    /\ sh_pc = "root"
    /\ sh_call.root_solver = "fsolve"
    /\ Residual(sh_call.U0.val).err # NoError
    /\ sh_pc' = "raised"
    /\ sh_out' = Raise(Residual(sh_call.U0.val).err)
    /\ UNCHANGED <<sh_call, sh_loc, odeVars, pdeVars>>

\* Line 256: the root solver returns sol
ShootRoot ==
    /\ sh_pc = "root"
    /\ sh_call.root_solver = "fsolve" => Residual(sh_call.U0.val).err = NoError
    /\ \E sol \in Candidates(Len(sh_call.U0.val)) :
          /\ sh_call.root_solver = "fsolve" => Residual(sol).err = NoError
          /\ sh_loc' = [sh_loc EXCEPT !.sol = sol]
    /\ sh_pc' = "final"
    /\ UNCHANGED <<sh_call, sh_out, odeVars, pdeVars>>

\* Lines 257-273, final being the residual at sol or the error it raised
Finish(sol, X0, T, final) ==
    IF final.err # NoError
    THEN /\ sh_pc' = "raised"
         /\ sh_out' = Raise(final.err)
         /\ UNCHANGED sh_loc
    ELSE /\ sh_loc' = [sh_loc EXCEPT !.final_conditions = final.conditions]
         /\ IF ~AllClose(final.conditions, Zeros(Len(sol)), sh_call.atol)
            THEN /\ sh_pc' = "raised"
                 /\ sh_out' =
                      [err |-> "ValueError: The solution does not satisfy the boundary conditions",
                       X0 |-> <<>>, T |-> 0,
                       reported |-> <<final.conditions, X0, T>>]
            ELSE IF T <= 0
            THEN /\ sh_pc' = "raised"
                 /\ sh_out' = Raise("ValueError: The time period is not positive")
            ELSE /\ sh_pc' = "returned"
                 /\ sh_out' = [err |-> NoError, X0 |-> X0, T |-> T, reported |-> <<>>]

\* Lines 257-273: the residual at sol, the two checks, the return
ShootFinish ==
    /\ sh_pc = "final"
    /\ Finish(sh_loc.sol, AsRationals(sh_loc.sol, Len(sh_loc.sol) - 1),
              sh_loc.sol[Len(sh_loc.sol)], Residual(sh_loc.sol))
    /\ UNCHANGED <<sh_call, odeVars, pdeVars>>

ShNext == ShootProbe \/ ShootChecks \/ ShootRootRaises \/ ShootRoot \/ ShootFinish

SpecShooting == ShInit /\ [][ShNext]_vars

ShEnded == sh_pc \in {"returned", "raised"}

\* The root solver has returned sol.
HasSol == sh_loc.sol # <<>>

\* C2: no pair (X0, T) with T <= 0 is returned: when the root solver's
\* solution ends in T <= 0 the call ends with the non-positive-period error
\* and no other, whatever ode_solver and root_solver are.
C2_NonPositivePeriodError ==
    (ShEnded /\ HasSol /\ Last(sh_loc.sol) <= 0) =>
        /\ sh_pc = "raised"
        /\ sh_out.err = "ValueError: The time period is not positive"

\* C3: (X0, T) is returned only if every entry of the residual at the
\* solution is within atol of zero; when an entry is farther than atol the
\* call raises the convergence error, which reports the residual, X0 and T.
C3_ResidualWithinAtol ==
    LET res == sh_loc.final_conditions
        within == \A i \in DOMAIN res : RLe(RAbs(res[i]), sh_call.atol)
    IN  /\ sh_pc = "returned" =>
              /\ Len(res) = Len(sh_loc.sol)
              /\ within
              /\ sh_out.X0 = AsRationals(sh_loc.sol, Len(sh_loc.sol) - 1)
              /\ sh_out.T = Last(sh_loc.sol)
        /\ (ShEnded /\ res # <<>> /\ ~within) =>
              /\ sh_pc = "raised"
              /\ sh_out.err = "ValueError: The solution does not satisfy the boundary conditions"
              /\ sh_out.reported =
                   <<res, AsRationals(sh_loc.sol, Len(sh_loc.sol) - 1), Last(sh_loc.sol)>>

\* a residual with a zero first entry and another entry beyond atol
C3_Witness ==
    /\ sh_pc = "raised"
    /\ sh_out.err = "ValueError: The solution does not satisfy the boundary conditions"
    /\ Len(sh_loc.final_conditions) >= 2
    /\ sh_loc.final_conditions[1] = R(0)
    /\ \E i \in DOMAIN sh_loc.final_conditions :
          ~RLe(RAbs(sh_loc.final_conditions[i]), sh_call.atol)

\* C6: a plain list U0 whose state part the ODE accepts passes the probe:
\* the call does not end with the error about the layout of U0.
C6_ListGuessAccepted ==
    LET c == sh_call
    IN  (/\ sh_pc # "call"
         /\ c.U0.type = "list"
         /\ c.ode.acceptsList /\ c.ode.ret = "ndarray"
         /\ c.function_args.type # "scalar"
         /\ Len(WrapFun(c.ode, c.function_args).bound) = c.ode.nargs) =>
            ~(/\ sh_pc = "raised"
              /\ sh_out.err = "InputError: The initial guess, U0, is not of the correct form")

\* C7: with function_args that cannot be unpacked and a well-formed U0 the
\* call fails with the TypeError about function_args, not with the error
\* about the layout of U0.
C7_ArgsErrorNamesArgs ==
    (/\ sh_pc # "call"
     /\ sh_call.function_args.type = "scalar"
     /\ sh_call.U0.type = "ndarray") =>
        /\ sh_pc = "raised"
        /\ sh_out.err = "TypeError: Supplied 'function_args' cannot be unpacked"

\* ------------------------------------------------------------------------
\* PDE time-steppers (SciComp/_pde_solvers.py)
\* ------------------------------------------------------------------------
\* Most time intervals in a grid t (len(t) - 1).
MaxIntervals == 2

\* The second-difference matrix construct_matrix builds for a Dirichlet
\* problem, and its boundary vector.
Tridiagonal(n) ==
    [i \in 1..n |->
        [j \in 1..n |-> IF i = j THEN R(-2)
                        ELSE IF Abs(i - j) = 1 THEN R(1) ELSE R(0)]]

BoundaryVector(n, alpha, beta) ==
    [i \in 1..n |-> IF i = 1 THEN alpha ELSE IF i = n THEN beta ELSE R(0)]

\* bvp.q_fun: None, or a reaction term k*u declared with a number of
\* positional parameters.
NoQ == [type |-> "none", nargs |-> 0, k |-> 0]

QFun(nargs, k) == [type |-> "function", nargs |-> nargs, k |-> k]

\* A BVP descriptor: the attributes the steppers read, with the A and b that
\* construct_matrix() returns and the values f_fun(x_array, t[0]) returns.
Bvp(alpha, beta, C, N, f, q_fun, sparse, A) ==
    [alpha |-> alpha, beta |-> beta, C |-> C, N |-> N, shape |-> Len(f),
     f |-> f, q_fun |-> q_fun, sparse |-> sparse,
     A |-> A, b |-> BoundaryVector(Len(f), alpha, beta)]

construct_matrix(bvp) == <<bvp.A, bvp.b, [i \in 1..bvp.shape |-> i - 1]>>

f_fun(bvp, x_array, t0) == bvp.f

\* u = np.zeros((len(x_array), len(t)))
\* u[:, 0] = bvp.f_fun(x_array, t[0])
\* The buffer is kept as its columns: u[:, n] is u[n + 1].
Buffer(bvp, t) ==
    [c \in 1..Len(t) |->
        IF c = 1 THEN f_fun(bvp, construct_matrix(bvp)[3], t[1])
        ELSE Zeros(Len(construct_matrix(bvp)[3]))]

\* u[0, :] = bvp.alpha ; u[-1, :] = bvp.beta
PinBoundaries(u, bvp) ==
    [c \in 1..Len(u) |->
        [r \in 1..Len(u[c]) |->
            IF r = Len(u[c]) THEN bvp.beta
            ELSE IF r = 1 THEN bvp.alpha ELSE u[c][r]]]

\* Lines 73-80: the inner loop of explicit_euler over xi in
\* range(1, len(x_array)-1); xi here is the 1-based row xi + 1.
ExplicitEulerColumn(bvp, prev, next) ==
    [r \in 1..Len(prev) |->
        IF r = 1 \/ r = Len(prev) THEN next[r]
        ELSE IF r - 1 > 0 /\ r - 1 < bvp.N
        THEN RAdd(prev[r],
                  RMul(bvp.C, RAdd(RSub(prev[r - 1], RMul(R(2), prev[r])), prev[r + 1])))
        ELSE RAdd(prev[r],
                  RMul(bvp.C, RAdd(RSub(bvp.beta, RMul(R(2), prev[r])), prev[r - 1])))]

\* Lines 124-129: the right-hand side explicit_method defines.  With a q_fun
\* it is declared with five parameters (t, u, D, A, b).
PDE(bvp) ==
    [code |-> "PDE", C |-> bvp.C, A |-> construct_matrix(bvp)[1],
     b |-> construct_matrix(bvp)[2],
     nargs |-> IF bvp.q_fun.type = "none" THEN 2 ELSE 5]

\* A step function calls f(t, y) with two arguments.
StepRaises(f) == f.nargs # 2

\* Line 133: t_, u[:, n+1] = euler_step(PDE, t_, u[:, n], 1)
ExplicitMethodStep(bvp, t_, column) == euler_step(PDE(bvp), t_, column, 1)

\* Lines 162-163 and 239-240
ImplicitLhs(bvp) == MatAdd(Eye(bvp.shape), MatScale(RNeg(bvp.C), construct_matrix(bvp)[1]))

ImplicitRhs(bvp) == VScale(bvp.C, construct_matrix(bvp)[2])

\* Lines 172, 174 and 248
ImplicitColumn(bvp, prev) == Solve(ImplicitLhs(bvp), VAdd(prev, ImplicitRhs(bvp)))

\* Lines 203-204
CrankLhs(bvp) ==
    MatAdd(Eye(bvp.shape), MatScale(RNeg(RDiv(bvp.C, R(2))), construct_matrix(bvp)[1]))

CrankRhs(bvp) ==
    MatAdd(Eye(bvp.shape), MatScale(RDiv(bvp.C, R(2)), construct_matrix(bvp)[1]))

\* Lines 211 and 213
CrankColumn(bvp, prev) ==
    Solve(CrankLhs(bvp),
          VAdd(MatVec(CrankRhs(bvp), prev), VScale(bvp.C, construct_matrix(bvp)[2])))

\* Lines 248-252: the implicit column plus q_fun(x_array, t[ti], u[:, ti])
ImexColumn(bvp, prev) ==
    IF bvp.q_fun.type = "none" THEN ImplicitColumn(bvp, prev)
    ELSE VAdd(ImplicitColumn(bvp, prev), VScale(R(bvp.q_fun.k), prev))

Steppers ==
    {"explicit_euler", "explicit_method", "implicit_euler", "crank_nicolson",
     "imex_euler"}

\* The matrix a stepper hands to the linear solver.
SolverMatrix(stepper, bvp) ==
    IF stepper = "crank_nicolson" THEN CrankLhs(bvp) ELSE ImplicitLhs(bvp)

\* The error one loop iteration raises, NoError when it completes.
IterationError(stepper, bvp) ==
    CASE stepper = "explicit_euler" -> NoError
      [] stepper = "explicit_method" ->
            IF StepRaises(PDE(bvp))
            THEN "TypeError: PDE() missing 3 required positional arguments"
            ELSE NoError
      [] stepper = "imex_euler" /\ ~Singular(ImplicitLhs(bvp))
                                /\ bvp.q_fun.type = "function"
                                /\ bvp.q_fun.nargs # 3 ->
            "TypeError: q_fun() takes 2 positional arguments but 3 were given"
      [] OTHER ->
            IF Singular(SolverMatrix(stepper, bvp))
            THEN "LinAlgError: Singular matrix"
            ELSE NoError

\* The column u[:, ti+1] one loop iteration leaves in the buffer.
NextColumn(stepper, bvp, t_, prev, next) ==
    CASE stepper = "explicit_euler" -> ExplicitEulerColumn(bvp, prev, next)
      [] stepper = "explicit_method" -> ExplicitMethodStep(bvp, t_, prev)[2]
      [] stepper = "implicit_euler" -> ImplicitColumn(bvp, prev)
      [] stepper = "crank_nicolson" -> CrankColumn(bvp, prev)
      [] stepper = "imex_euler" -> ImexColumn(bvp, prev)

\* Line 82 is a bare return; lines 135, 176, 215 and 254 return u.
ReturnValue(stepper, u) ==
    IF stepper = "explicit_euler" THEN None ELSE NdArray(u)

\* ------------------------------------------------------------------------
\* SpecPde: one call of a PDE time-stepper
\* ------------------------------------------------------------------------
\* Initial conditions on the grid: a bump at the second point, a step down
\* after it.
Bump == <<R(0), R(1), R(0)>>

StepDown == <<R(1), R(1), R(0)>>

\* Grid points of the boundary value problems.
GridPoints == Len(Bump)

PdeInitials == {Bump, StepDown}

PdeQFuns == {NoQ, QFun(2, 1), QFun(3, 1)}

\* Dirichlet problems on GridPoints points, and two descriptors whose
\* matrices make I - C*A and I - C*A/2 singular.
PdeBvps ==
    {Bvp(f[1], f[GridPoints], C, N, f, q, sparse, Tridiagonal(GridPoints)) :
        f \in PdeInitials, C \in {R(1), Rat(1, 2)},
        N \in {GridPoints - 1, GridPoints}, q \in PdeQFuns,
        sparse \in BOOLEAN}
    \cup {Bvp(R(0), R(1), R(1), GridPoints, StepDown, NoQ, FALSE, Eye(GridPoints))}
    \cup {Bvp(R(0), R(1), R(1), GridPoints, StepDown, NoQ, FALSE,
              MatScale(R(2), Eye(GridPoints)))}

PdeGrids == {[i \in 1..(k + 1) |-> i - 1] : k \in 0..MaxIntervals}

PdeMethods == {"Euler", "RK4", "Heun", "Midpoint"}

\* explicit_method is the only stepper with a method argument; imex_euler
\* builds a dense identity whatever bvp.sparse says and is given dense
\* descriptors.
PdeCalls ==
    {[stepper |-> st, method |-> m, bvp |-> bvp, t |-> t] :
        st \in Steppers, m \in PdeMethods, bvp \in PdeBvps, t \in PdeGrids}

PdeCallable(c) ==
    /\ (c.stepper # "explicit_method" => c.method = "Euler")
    /\ (c.stepper = "imex_euler" => ~c.bvp.sparse)
    /\ (c.bvp.sparse => ~Singular(SolverMatrix(c.stepper, c.bvp)))

PdeNoLocals == [u |-> <<>>, ti |-> 0, t_ |-> 0]

PdeNoResult == [err |-> NoError, value |-> None]

PdeInit ==
    /\ pde_call \in {c \in PdeCalls : PdeCallable(c)}
    /\ pde_pc = "call"
    /\ pde_loc = PdeNoLocals
    /\ pde_out = PdeNoResult
    /\ OdeIdle
    /\ ShIdle

\* Lines 111-112: explicit_method rejects a name that is not in METHODS.
PdeReject ==
    /\ pde_pc = "call"
    /\ pde_call.stepper = "explicit_method"
    /\ pde_call.method \notin MethodNames
    /\ pde_pc' = "raised"
    /\ pde_out' = [err |-> "ValueError: Invalid method", value |-> None]
    /\ UNCHANGED <<pde_call, pde_loc, odeVars, shVars>>

\* Everything before the time loop: the matrix, the buffer with column 0,
\* and for the two explicit steppers the pinned boundary rows.
PdeSetup ==
    /\ pde_pc = "call"
    /\ pde_call.stepper = "explicit_method" => pde_call.method \in MethodNames
    /\ pde_loc' =
         [u |-> IF pde_call.stepper \in {"explicit_euler", "explicit_method"}
                THEN PinBoundaries(Buffer(pde_call.bvp, pde_call.t), pde_call.bvp)
                ELSE Buffer(pde_call.bvp, pde_call.t),
          ti |-> 0,
          t_ |-> pde_call.t[1]]
    /\ pde_pc' = "loop"
    /\ UNCHANGED <<pde_call, pde_out, odeVars, shVars>>

\* One iteration of the time loop that completes.
PdeStep ==
    /\ pde_pc = "loop"
    /\ pde_loc.ti < Len(pde_call.t) - 1
    /\ IterationError(pde_call.stepper, pde_call.bvp) = NoError
    /\ pde_loc' =
         [u |-> [pde_loc.u EXCEPT ![pde_loc.ti + 2] =
                    NextColumn(pde_call.stepper, pde_call.bvp, pde_loc.t_,
                               pde_loc.u[pde_loc.ti + 1], pde_loc.u[pde_loc.ti + 2])],
          ti |-> pde_loc.ti + 1,
          t_ |-> IF pde_call.stepper = "explicit_method"
                 THEN ExplicitMethodStep(pde_call.bvp, pde_loc.t_,
                                         pde_loc.u[pde_loc.ti + 1])[1]
                 ELSE pde_loc.t_]
    /\ UNCHANGED <<pde_call, pde_pc, pde_out, odeVars, shVars>>

\* One iteration of the time loop that raises.
PdeStepRaises ==
    /\ pde_pc = "loop"
    /\ pde_loc.ti < Len(pde_call.t) - 1
    /\ IterationError(pde_call.stepper, pde_call.bvp) # NoError
    /\ pde_pc' = "raised"
    /\ pde_out' = [err |-> IterationError(pde_call.stepper, pde_call.bvp),
                   value |-> None]
    /\ UNCHANGED <<pde_call, pde_loc, odeVars, shVars>>

\* The return statement after the loop.
PdeReturn ==
    /\ pde_pc = "loop"
    /\ pde_loc.ti = Len(pde_call.t) - 1
    /\ pde_pc' = "returned"
    /\ pde_out' = [err |-> NoError,
                   value |-> ReturnValue(pde_call.stepper, pde_loc.u)]
    /\ UNCHANGED <<pde_call, pde_loc, odeVars, shVars>>

PdeNext == PdeReject \/ PdeSetup \/ PdeStep \/ PdeStepRaises \/ PdeReturn

SpecPde == PdeInit /\ [][PdeNext]_vars

\* C8: explicit_method fills column n+1 by applying the step function its
\* method argument selects ('Euler', 'RK4' or 'Heun') to column n, and an
\* unknown method name ends the call with the invalid-method error.
C8_SelectedStepFunction ==
    pde_pc # "idle" /\ pde_call.stepper = "explicit_method" =>
        /\ pde_pc \in {"loop", "returned"} =>
              \A n \in 1..pde_loc.ti :
                  pde_loc.u[n + 1] =
                      CallStep(METHODS(pde_call.method), PDE(pde_call.bvp),
                               pde_call.t[n], pde_loc.u[n], 1)[2]
        /\ pde_call.method \notin MethodNames /\ pde_pc \in {"returned", "raised"} =>
              pde_out.err = "ValueError: Invalid method"

\* C10: a PDE time-stepper that returns hands back the buffer it filled:
\* an array with one column per entry of t, column 0 holding the initial
\* condition at t[0] (the boundary rows set to alpha and beta by the
\* explicit steppers), and every later column written by the loop in order.
C10_ReturnsFilledBuffer ==
    pde_pc = "returned" =>
        /\ pde_out.value.type = "ndarray"
        /\ pde_out.value.val = pde_loc.u
        /\ Len(pde_loc.u) = Len(pde_call.t)
        /\ pde_loc.ti = Len(pde_call.t) - 1
        /\ \A r \in 2..(GridPoints - 1) : pde_loc.u[1][r] = pde_call.bvp.f[r]

=============================================================================
